---- MODULE Spec2Model ----
(***************************************************************************)
(* Heartbeat agent pipeline (src/sample.py): the bounded completion loop   *)
(* of Pipeline.pipe, the JSON heartbeat decision and the final return.     *)
(*                                                                         *)
(* Text is modelled as a sequence of lexemes (a JSON punctuation mark, a   *)
(* literal, a quoted string, a blank, or a plain word), so that parsing    *)
(* and trimming are computed and not assumed.                              *)
(***************************************************************************)
EXTENDS Integers, Sequences, FiniteSets, TLC

VARIABLES
    valves,        \* self.valves: MAX_ITERS, HEARTBEAT_FIELD, TASK_MODEL
    tools,         \* names of the methods of self.tools, in declaration order
    pc,            \* position of the invocation of pipe
    messages,      \* the caller's messages list (argument of pipe)
    user_message,  \* argument of pipe
    model_id,      \* argument of pipe
    convo,         \* local convo of pipe
    step,          \* loop variable of pipe: iterations completed
    exit,          \* how the for loop was left
    requests,      \* payloads posted to /chat/completions by this invocation
    result,        \* value returned by pipe
    error,         \* exception that left pipe
    other,         \* a second invocation of pipe on the same Pipeline object
    single         \* the last call of a single-round pipeline (llm.py, function.py)

vars == <<valves, tools, pc, messages, user_message, model_id, convo, step,
          exit, requests, result, error, other, single>>

----------------------------------------------------------------------------
(* Bounds of the model *)

MaxItersBound == 5

----------------------------------------------------------------------------
(* Text: sequences of lexemes *)

Blank == {" ", "\n"}

Numbers == {"0", "1", "4"}

Quoted == {"\"heartbeat\"", "\"alive\"", "\"thought\"", "\"compute\"", "\"\"",
           "\"a\"", "\"b\""}

\* The characters between the quotes of a quoted lexeme.
Unquote(tok) ==
    CASE tok = "\"heartbeat\"" -> "heartbeat"
      [] tok = "\"alive\""     -> "alive"
      [] tok = "\"thought\""   -> "thought"
      [] tok = "\"compute\""   -> "compute"
      [] tok = "\"a\""         -> "a"
      [] tok = "\"b\""         -> "b"
      [] OTHER                 -> ""

NumberOf(tok) ==
    CASE tok = "0" -> 0
      [] tok = "1" -> 1
      [] OTHER     -> 4

RECURSIVE LStrip(_)
LStrip(s) ==
    IF s # <<>> /\ Head(s) \in Blank THEN LStrip(Tail(s)) ELSE s

RECURSIVE RStrip(_)
RStrip(s) ==
    IF s # <<>> /\ s[Len(s)] \in Blank THEN RStrip(SubSeq(s, 1, Len(s) - 1)) ELSE s

\* A mutant of Strip: only leading blanks are removed.
StripLeftOnly(s) == LStrip(s)

\* str.strip(): leading and trailing whitespace removed.
Strip(s) == RStrip(LStrip(s))

----------------------------------------------------------------------------
(* JSON values and json.loads *)

JNull       == [t |-> "null", b |-> FALSE, n |-> 0, s |-> "", items |-> <<>>]
JBool(x)    == [t |-> "bool", b |-> x,     n |-> 0, s |-> "", items |-> <<>>]
JNum(x)     == [t |-> "num",  b |-> FALSE, n |-> x, s |-> "", items |-> <<>>]
JStr(x)     == [t |-> "str",  b |-> FALSE, n |-> 0, s |-> x,  items |-> <<>>]
JArr(xs)    == [t |-> "arr",  b |-> FALSE, n |-> 0, s |-> "", items |-> xs]
\* items of an object: pairs <<key, value>> in source order
JObj(kvs)   == [t |-> "obj",  b |-> FALSE, n |-> 0, s |-> "", items |-> kvs]

ParseFail == [ok |-> FALSE, val |-> JNull, next |-> 0]
ParseOk(v, i) == [ok |-> TRUE, val |-> v, next |-> i]

RECURSIVE SkipBlank(_, _)
SkipBlank(toks, i) ==
    IF i <= Len(toks) /\ toks[i] \in Blank THEN SkipBlank(toks, i + 1) ELSE i

RECURSIVE ParseValue(_, _)
RECURSIVE ParseElems(_, _, _)
RECURSIVE ParseMembers(_, _, _)

\* One JSON value starting at the first non-blank lexeme at or after i.
ParseValue(toks, i0) ==
    LET i == SkipBlank(toks, i0) IN
    IF i > Len(toks) THEN ParseFail
    ELSE LET tok == toks[i] IN
         CASE tok = "true"    -> ParseOk(JBool(TRUE), i + 1)
           [] tok = "false"   -> ParseOk(JBool(FALSE), i + 1)
           [] tok = "null"    -> ParseOk(JNull, i + 1)
           [] tok \in Numbers -> ParseOk(JNum(NumberOf(tok)), i + 1)
           [] tok \in Quoted  -> ParseOk(JStr(Unquote(tok)), i + 1)
           [] tok = "["       ->
                LET j == SkipBlank(toks, i + 1) IN
                IF j <= Len(toks) /\ toks[j] = "]"
                THEN ParseOk(JArr(<<>>), j + 1)
                ELSE ParseElems(toks, i + 1, <<>>)
           [] tok = "{"       ->
                LET j == SkipBlank(toks, i + 1) IN
                IF j <= Len(toks) /\ toks[j] = "}"
                THEN ParseOk(JObj(<<>>), j + 1)
                ELSE ParseMembers(toks, i + 1, <<>>)
           [] OTHER           -> ParseFail

\* The elements of a non-empty array, the opening bracket already read.
ParseElems(toks, i, acc) ==
    LET v == ParseValue(toks, i) IN
    IF ~v.ok THEN ParseFail
    ELSE LET j == SkipBlank(toks, v.next) IN
         IF j > Len(toks) THEN ParseFail
         ELSE IF toks[j] = "," THEN ParseElems(toks, j + 1, Append(acc, v.val))
         ELSE IF toks[j] = "]" THEN ParseOk(JArr(Append(acc, v.val)), j + 1)
         ELSE ParseFail

\* The members of a non-empty object, the opening brace already read.
ParseMembers(toks, i0, acc) ==
    LET i == SkipBlank(toks, i0) IN
    IF i > Len(toks) \/ toks[i] \notin Quoted THEN ParseFail
    ELSE LET c == SkipBlank(toks, i + 1) IN
         IF c > Len(toks) \/ toks[c] # ":" THEN ParseFail
         ELSE LET v == ParseValue(toks, c + 1) IN
              IF ~v.ok THEN ParseFail
              ELSE LET j  == SkipBlank(toks, v.next)
                       kv == <<Unquote(toks[i]), v.val>>
                   IN
                   IF j > Len(toks) THEN ParseFail
                   ELSE IF toks[j] = "," THEN ParseMembers(toks, j + 1, Append(acc, kv))
                   ELSE IF toks[j] = "}" THEN ParseOk(JObj(Append(acc, kv)), j + 1)
                   ELSE ParseFail

\* Content of a message: a text, None (JSON null), or no "content" key.
Str(s)  == [kind |-> "str", text |-> s]
None    == [kind |-> "null", text |-> <<>>]
Missing == [kind |-> "missing", text |-> <<>>]

\* json.loads(content): the value, or the exception it raises.
json_loads(content) ==
    IF content.kind # "str"
    THEN [exc |-> "TypeError", val |-> JNull]
    ELSE LET v == ParseValue(content.text, 1) IN
         IF v.ok /\ SkipBlank(content.text, v.next) > Len(content.text)
         THEN [exc |-> "none", val |-> v.val]
         ELSE [exc |-> "JSONDecodeError", val |-> JNull]

\* isinstance(data, dict)
IsDict(v) == v.t = "obj"

\* Python truth value of a decoded JSON value.
Truthy(v) ==
    CASE v.t = "null" -> FALSE
      [] v.t = "bool" -> v.b
      [] v.t = "num"  -> v.n # 0
      [] v.t = "str"  -> v.s # ""
      [] OTHER        -> v.items # <<>>

RECURSIVE Lookup(_, _, _, _)
Lookup(kvs, key, i, default) ==
    IF i = 0 THEN default
    ELSE IF kvs[i][1] = key THEN kvs[i][2]
    ELSE Lookup(kvs, key, i - 1, default)

\* data.get(key, False) on a decoded object: the last member of that name wins.
DictGet(data, key) == Lookup(data.items, key, Len(data.items), JBool(FALSE))

----------------------------------------------------------------------------
(* Messages *)

Msg(role, content, tool_calls) ==
    [role |-> role, content |-> content, tool_calls |-> tool_calls]

UserTurn(text) == Msg("user", Str(text), <<>>)

\* A mutant of ContinuationTurn: the turn carries host-written text.
ContinuationTurnWithText == Msg("user", Str(<<"continue">>), <<>>)

\* The turn appended when the agent wants another round.
ContinuationTurn == Msg("user", Str(<<>>), <<>>)

\* assistant_msg.get("content", "")
GetContent(msg) == IF msg.content.kind = "missing" THEN Str(<<>>) ELSE msg.content

----------------------------------------------------------------------------
(* Inputs: configurations, caller arguments and what the endpoint answers *)

HeartbeatFields == {"heartbeat", "alive"}

ToolSets == {<<>>, <<"get_server_time", "fetch_url">>}

Histories ==
    { <<>>,
      <<UserTurn(<<"2+2?">>)>>,
      <<Msg("system", Str(<<"solve">>), <<>>), UserTurn(<<"2+2?">>)>>,
      <<UserTurn(<<"2+2?">>), Msg("assistant", Str(<<"4">>), <<>>), UserTurn(<<"not", " ", "json", "\n">>)>> }

UserMessages == {<<"2+2?">>, <<>>}

ModelIds == {"", "gpt-4o"}

\* Texts an assistant turn may carry.
Contents ==
    { <<"{", "\"heartbeat\"", ":", "true", ",", " ", "\"thought\"", ":", "\"compute\"", "}">>,
      <<" ", "{", "\"heartbeat\"", ":", "1", "}", "\n">>,
      <<"{", "\"alive\"", ":", "true", "}">>,
      <<"{", "\"heartbeat\"", ":", "false", "}">>,
      <<"{", "\"heartbeat\"", ":", "\"\"", "}", "\n">>,
      <<"{", "\"thought\"", ":", "\"compute\"", "}">>,
      <<"{", "}">>,
      <<"{", "\"heartbeat\"", ":", "true">>,
      <<"[", "true", "]">>,
      <<"4">>,
      <<" ", "4", "\n">>,
      <<"not", " ", "json", "\n">>,
      <<>> }

\* Assistant messages the endpoint may return in choices[0].message.
Replies ==
    { Msg("assistant", Str(c), <<>>) : c \in Contents }
    \cup { Msg("assistant", None, <<"get_server_time">>),
           Msg("assistant", Missing, <<>>),
           Msg("assistant", Str(<<"{", "\"heartbeat\"", ":", "true", "}">>),
               <<"get_server_time">>) }

\* Ways one completion round-trip fails: requests.post raises, raise_for_status
\* raises, or the body has no choices[0].message.
Failures == {"ConnectionError", "HTTPError", "KeyError"}

NoResult == [returned |-> FALSE, text |-> <<>>]
NoError  == [exc |-> "none", at |-> "none"]

----------------------------------------------------------------------------
(* pipe *)

\* A mutant of InRange: one iteration too few.
InRangeShort(i, max_iters) == i < max_iters - 1

\* A mutant of InRange: one iteration too many.
InRangeInclusive(i, max_iters) == i <= max_iters

\* for step in range(max_iters): the body runs for step = i.
InRange(i, max_iters) == i < max_iters

\* A mutant of SeedConvo: the new user turn is added to the history.
SeedConvoWithUserTurn(msgs, um) == Append(msgs, UserTurn(um))

\* convo = [m.copy() for m in messages]
SeedConvo(msgs, um) == msgs

\* get_tools_specs(self.tools): one spec per tool method.
ToolSpecs == tools

\* A mutant of HasTools: the key is always set, to an empty list when there are no specs.
HasToolsAlways(specs) == TRUE

\* if tool_specs: the key "tools" is set only for a non-empty list of specs.
HasTools(specs) == specs # <<>>

\* A mutant of RequestModel: the model_id argument is used when it is not empty.
RequestModelFromArgument(mid, task_model) == IF mid # "" THEN mid ELSE task_model

\* "model": self.valves.TASK_MODEL
RequestModel(mid, task_model) == task_model

\* A mutant of Record: the reply overwrites the last message.
RecordOverwriting(c, msg) == IF c = <<>> THEN <<msg>> ELSE [c EXCEPT ![Len(c)] = msg]

\* convo.append(assistant_msg)
Record(c, msg) == Append(c, msg)

\* A mutant of OwnConvo: the conversation is kept on the Pipeline object,
\* where another invocation in flight writes it too.
OwnConvoShared(mine, theirs) == theirs

\* convo is a local of the invocation: the list a step of pipe works on is
\* its own, whatever another invocation has in its own.
OwnConvo(mine, theirs) == mine

\* A mutant of CallerMessages: convo is the caller's list itself, not a copy.
CallerMessagesAliased(msgs, c) == c

\* The caller's list after pipe wrote c to convo: convo is a new list of
\* copied messages, so the caller's list is what it was.
CallerMessages(msgs, c) == msgs

\* The JSON body of a request for conversation c; has_tools tells whether the
\* key "tools" is set.
PayloadOf(mid, c) ==
    [model     |-> RequestModel(mid, valves.TASK_MODEL),
     messages  |-> c,
     has_tools |-> HasTools(ToolSpecs),
     tools     |-> IF HasTools(ToolSpecs) THEN ToolSpecs ELSE <<>>]

Payload == PayloadOf(model_id, convo)

\* return convo[-1]["content"].strip(): where pipe ends, with what.
ReturnOutcome(c) ==
    IF c = <<>>
    THEN [pc |-> "raised", error |-> [exc |-> "IndexError", at |-> "return"],
          result |-> NoResult]
    ELSE IF c[Len(c)].content.kind = "missing"
    THEN [pc |-> "raised", error |-> [exc |-> "KeyError", at |-> "return"],
          result |-> NoResult]
    ELSE IF c[Len(c)].content.kind = "null"
    THEN [pc |-> "raised", error |-> [exc |-> "AttributeError", at |-> "return"],
          result |-> NoResult]
    ELSE [pc |-> "done", error |-> NoError,
          result |-> [returned |-> TRUE, text |-> Strip(c[Len(c)].content.text)]]

Return(c) ==
    /\ pc' = ReturnOutcome(c).pc
    /\ error' = ReturnOutcome(c).error
    /\ result' = ReturnOutcome(c).result

\* The branch of the heartbeat decision taken for an assistant message.
Decide(msg) ==
    LET d == json_loads(GetContent(msg)) IN
    IF d.exc = "TypeError" THEN "type_error"
    ELSE IF d.exc = "JSONDecodeError" THEN "decode_error"
    ELSE IF ~IsDict(d.val) THEN "not_dict"
    ELSE IF ~Truthy(DictGet(d.val, valves.HEARTBEAT_FIELD)) THEN "falsy"
    ELSE "continue"

\* The host calls pipe(user_message, model_id, messages, body).
Call(um, mid, msgs) ==
    /\ pc \in {"idle", "done", "raised"}
    /\ pc' = "loop"
    /\ user_message' = um
    /\ model_id' = mid
    /\ messages' = msgs
    /\ convo' = SeedConvo(msgs, um)
    /\ step' = 0
    /\ exit' = "none"
    /\ requests' = <<>>
    /\ result' = NoResult
    /\ error' = NoError
    /\ UNCHANGED <<valves, tools, other, single>>

\* Top of the loop body: the payload is built and posted.
Request ==
    /\ pc = "loop"
    /\ InRange(step, valves.MAX_ITERS)
    /\ requests' = Append(requests, Payload)
    /\ pc' = "waiting"
    /\ UNCHANGED <<valves, tools, other, single, messages, user_message, model_id, convo, step,
                   exit, result, error>>

\* A mutant of Fail: the failure is swallowed and the last content is returned.
FailSwallowed(kind) ==
    /\ pc = "waiting"
    /\ exit' = "failed"
    /\ Return(convo)
    /\ UNCHANGED <<valves, tools, other, single, messages, user_message, model_id, convo, step,
                   requests>>

\* The round-trip fails: the exception leaves pipe.
Fail(kind) ==
    /\ pc = "waiting"
    /\ pc' = "raised"
    /\ error' = [exc |-> kind, at |-> "completion"]
    /\ UNCHANGED <<valves, tools, other, single, messages, user_message, model_id, convo, step,
                   exit, requests, result>>

\* The round-trip succeeds with assistant message reply: it is recorded, the
\* heartbeat decision is taken and, when the loop is left, pipe returns.
Respond(reply) ==
    /\ pc = "waiting"
    /\ LET c1 == Record(OwnConvo(convo, other.convo), reply)
           d  == Decide(reply)
       IN
       CASE d = "type_error" ->
              /\ convo' = c1
              /\ pc' = "raised"
              /\ error' = [exc |-> "TypeError", at |-> "json.loads"]
              /\ UNCHANGED <<step, exit, result>>
         [] d = "continue" ->
              /\ convo' = Append(c1, ContinuationTurn)
              /\ step' = step + 1
              /\ pc' = "loop"
              /\ UNCHANGED <<exit, result, error>>
         [] OTHER ->
              /\ convo' = c1
              /\ exit' = d
              /\ Return(c1)
              /\ UNCHANGED step
    /\ messages' = CallerMessages(messages, convo')
    /\ UNCHANGED <<valves, tools, other, single, user_message, model_id, requests>>

\* range(max_iters) is exhausted: the loop ends and pipe returns.
Exhausted ==
    /\ pc = "loop"
    /\ ~InRange(step, valves.MAX_ITERS)
    /\ exit' = "exhausted"
    /\ Return(convo)
    /\ UNCHANGED <<valves, tools, other, single, messages, user_message, model_id, convo, step,
                   requests>>

----------------------------------------------------------------------------
(* State outside the one invocation above *)

\* The locals of an invocation of pipe that has not been called.
IdleLocal ==
    [pc |-> "idle", user_message |-> <<>>, model_id |-> "", messages |-> <<>>,
     convo |-> <<>>, step |-> 0, exit |-> "none", requests |-> <<>>,
     result |-> NoResult, error |-> NoError]

\* No single-round pipeline has been called.
NoSingle ==
    [pipeline |-> "none",
     args     |-> [user_message |-> <<>>, model_id |-> "", messages |-> <<>>],
     requests |-> <<>>,
     outcome  |-> [exc |-> "none", content |-> None,
                   function_call |-> [name |-> "", arguments |-> None]],
     invoked  |-> <<>>,
     returned |-> FALSE,
     value    |-> None,
     raised   |-> FALSE]

\* A second invocation of pipe on the same Pipeline object, in flight at the
\* same time as the first; its locals are the fields of other.

CallOther(um, mid, msgs) ==
    /\ other.pc \in {"idle", "done", "raised"}
    /\ other' = [pc |-> "loop", user_message |-> um, model_id |-> mid,
                 messages |-> msgs, convo |-> SeedConvo(msgs, um), step |-> 0,
                 exit |-> "none", requests |-> <<>>, result |-> NoResult,
                 error |-> NoError]
    /\ UNCHANGED <<valves, tools, pc, messages, user_message, model_id, convo, step,
                   exit, requests, result, error, single>>

RequestOther ==
    /\ other.pc = "loop"
    /\ InRange(other.step, valves.MAX_ITERS)
    /\ other' = [other EXCEPT !.requests = Append(@, PayloadOf(other.model_id, other.convo)),
                              !.pc = "waiting"]
    /\ UNCHANGED <<valves, tools, pc, messages, user_message, model_id, convo, step,
                   exit, requests, result, error, single>>

FailOther(kind) ==
    /\ other.pc = "waiting"
    /\ other' = [other EXCEPT !.pc = "raised",
                              !.error = [exc |-> kind, at |-> "completion"]]
    /\ UNCHANGED <<valves, tools, pc, messages, user_message, model_id, convo, step,
                   exit, requests, result, error, single>>

RespondOther(reply) ==
    /\ other.pc = "waiting"
    /\ LET c1 == Record(OwnConvo(other.convo, convo), reply)
           d  == Decide(reply)
           c2 == IF d = "continue" THEN Append(c1, ContinuationTurn) ELSE c1
           ms == CallerMessages(other.messages, c2)
       IN
       CASE d = "type_error" ->
              other' = [other EXCEPT !.convo = c1, !.messages = ms, !.pc = "raised",
                                     !.error = [exc |-> "TypeError", at |-> "json.loads"]]
         [] d = "continue" ->
              other' = [other EXCEPT !.convo = c2, !.messages = ms,
                                     !.step = @ + 1, !.pc = "loop"]
         [] OTHER ->
              other' = [other EXCEPT !.convo = c1, !.messages = ms, !.exit = d,
                                     !.pc = ReturnOutcome(c1).pc,
                                     !.error = ReturnOutcome(c1).error,
                                     !.result = ReturnOutcome(c1).result]
    /\ UNCHANGED <<valves, tools, pc, messages, user_message, model_id, convo, step,
                   exit, requests, result, error, single>>

ExhaustedOther ==
    /\ other.pc = "loop"
    /\ ~InRange(other.step, valves.MAX_ITERS)
    /\ other' = [other EXCEPT !.exit = "exhausted",
                              !.pc = ReturnOutcome(other.convo).pc,
                              !.error = ReturnOutcome(other.convo).error,
                              !.result = ReturnOutcome(other.convo).result]
    /\ UNCHANGED <<valves, tools, pc, messages, user_message, model_id, convo, step,
                   exit, requests, result, error, single>>

----------------------------------------------------------------------------
(* Specification *)

\* The pipeline after construction, before any call of pipe.
Init ==
    /\ valves \in [MAX_ITERS : 1..MaxItersBound,
                   HEARTBEAT_FIELD : HeartbeatFields,
                   TASK_MODEL : {"task-model"}]
    /\ tools \in ToolSets
    /\ pc = "idle"
    /\ messages = <<>>
    /\ user_message = <<>>
    /\ model_id = ""
    /\ convo = <<>>
    /\ step = 0
    /\ exit = "none"
    /\ requests = <<>>
    /\ result = NoResult
    /\ error = NoError
    /\ other = IdleLocal
    /\ single = NoSingle

Next ==
    \/ \E um \in UserMessages, mid \in ModelIds, msgs \in Histories : Call(um, mid, msgs)
    \/ Request
    \/ \E kind \in Failures : Fail(kind)
    \/ \E reply \in Replies : Respond(reply)
    \/ Exhausted

Spec == Init /\ [][Next]_vars

----------------------------------------------------------------------------
(* Two invocations of pipe in flight on one Pipeline object *)

MaxItersConc == 2

\* What the two callers pass and what the endpoint answers each of them: one
\* history and two replies are common to both, the rest is told apart.
FirstHistories ==
    { <<UserTurn(<<"2+2?">>)>>,
      <<Msg("system", Str(<<"solve">>), <<>>), UserTurn(<<"2+2?">>)>> }

OtherHistories ==
    { <<UserTurn(<<"2+2?">>)>>,
      <<UserTurn(<<"2+2?">>), Msg("assistant", Str(<<"4">>), <<>>),
        UserTurn(<<"not", " ", "json", "\n">>)>> }

CommonReplies ==
    { Msg("assistant",
          Str(<<"{", "\"heartbeat\"", ":", "true", ",", " ", "\"thought\"", ":",
                "\"compute\"", "}">>), <<>>),
      Msg("assistant", Str(<<"{", "\"alive\"", ":", "true", "}">>), <<>>) }

FirstReplies ==
    CommonReplies \cup { Msg("assistant", Str(<<" ", "4", "\n">>), <<>>),
                         Msg("assistant", None, <<"get_server_time">>) }

OtherReplies ==
    CommonReplies \cup { Msg("assistant", Str(<<"not", " ", "json", "\n">>), <<>>) }

InitConc ==
    /\ valves \in [MAX_ITERS : 1..MaxItersConc,
                   HEARTBEAT_FIELD : HeartbeatFields,
                   TASK_MODEL : {"task-model"}]
    /\ tools \in ToolSets
    /\ pc = "idle"
    /\ messages = <<>>
    /\ user_message = <<>>
    /\ model_id = ""
    /\ convo = <<>>
    /\ step = 0
    /\ exit = "none"
    /\ requests = <<>>
    /\ result = NoResult
    /\ error = NoError
    /\ other = IdleLocal
    /\ single = NoSingle

\* Each invocation takes its steps when its own round-trip comes back; the
\* steps of the two interleave in any order.
NextConc ==
    \/ \E mid \in ModelIds, msgs \in FirstHistories : Call(<<"2+2?">>, mid, msgs)
    \/ Request
    \/ \E kind \in {"ConnectionError", "HTTPError"} : Fail(kind)
    \/ \E reply \in FirstReplies : Respond(reply)
    \/ Exhausted
    \/ \E um \in UserMessages, msgs \in OtherHistories : CallOther(um, "", msgs)
    \/ RequestOther
    \/ \E kind \in {"ConnectionError", "HTTPError"} : FailOther(kind)
    \/ \E reply \in OtherReplies : RespondOther(reply)
    \/ ExhaustedOther

SpecConc == InitConc /\ [][NextConc]_vars

\* pipe run from start to end on its own, as a function of its arguments and
\* of the replies the endpoint gives it: the requests it posts and how it
\* ends (waiting, when the replies run out before the loop ends).
RECURSIVE AloneFrom(_, _, _, _, _)
AloneFrom(mid, c, i, replies, reqs) ==
    IF ~InRange(i, valves.MAX_ITERS)
    THEN [requests |-> reqs, exit |-> "exhausted", end |-> ReturnOutcome(c)]
    ELSE LET reqs1 == Append(reqs, PayloadOf(mid, c)) IN
         IF replies = <<>>
         THEN [requests |-> reqs1, exit |-> "none",
               end |-> [pc |-> "waiting", error |-> NoError, result |-> NoResult]]
         ELSE LET c1 == Record(c, Head(replies))
                  d  == Decide(Head(replies))
              IN
              IF d = "type_error"
              THEN [requests |-> reqs1, exit |-> "none",
                    end |-> [pc |-> "raised",
                             error |-> [exc |-> "TypeError", at |-> "json.loads"],
                             result |-> NoResult]]
              ELSE IF d = "continue"
              THEN AloneFrom(mid, Append(c1, ContinuationTurn), i + 1, Tail(replies), reqs1)
              ELSE [requests |-> reqs1, exit |-> d, end |-> ReturnOutcome(c1)]

Alone(um, mid, msgs, replies) == AloneFrom(mid, SeedConvo(msgs, um), 0, replies, <<>>)

----------------------------------------------------------------------------
(* Vocabulary of the properties *)

\* r is s without its leading and trailing blanks.
IsTrimOf(r, s) ==
    /\ r = <<>> \/ (r[1] \notin Blank /\ r[Len(r)] \notin Blank)
    /\ \E i \in 0..Len(s) :
          /\ i + Len(r) <= Len(s)
          /\ \A k \in 1..i : s[k] \in Blank
          /\ \A k \in 1..Len(r) : s[i + k] = r[k]
          /\ \A k \in (i + Len(r) + 1)..Len(s) : s[k] \in Blank

\* The text of a message, the empty text when it carries none.
TextOf(msg) == IF msg.content.kind = "str" THEN msg.content.text ELSE <<>>

\* The text of msg is a JSON object.
ParsesAsObject(msg) ==
    LET d == json_loads(Str(TextOf(msg))) IN d.exc = "none" /\ IsDict(d.val)

\* The text of msg is a JSON object whose heartbeat field is truthy.
SignalsContinue(msg) ==
    /\ msg.content.kind = "str"
    /\ ParsesAsObject(msg)
    /\ Truthy(DictGet(json_loads(msg.content).val, valves.HEARTBEAT_FIELD))

\* The text of msg is a JSON object whose heartbeat field is missing or falsy.
SignalsStopClean(msg) ==
    /\ msg.content.kind = "str"
    /\ ParsesAsObject(msg)
    /\ ~Truthy(DictGet(json_loads(msg.content).val, valves.HEARTBEAT_FIELD))

\* The text of msg (empty when absent) is no JSON object.
IsNonJson(msg) == ~ParsesAsObject(msg)

\* This step receives an assistant reply and appends it to the conversation.
ReplyArrives == pc = "waiting" /\ Len(convo') > Len(convo)

\* The reply appended by a ReplyArrives step.
NewReply == convo'[Len(convo) + 1]

\* Number of assistant replies appended by this invocation.
RepliesOf(c) ==
    Cardinality({i \in (Len(messages) + 1)..Len(c) : c[i].role = "assistant"})

\* An ended invocation does nothing more: the next step is a new call of pipe.
EndedIsQuiet == pc \in {"done", "raised"} => (pc' = "loop" /\ requests' = <<>>)

\* This step returns text from pipe.
Returns(text) == pc' = "done" /\ result' = [returned |-> TRUE, text |-> text]

----------------------------------------------------------------------------
(* C1. Termination bound: whatever the model replies, one invocation of    *)
(* pipe posts at most MAX_ITERS completion requests, completes at most     *)
(* MAX_ITERS iterations, and once MAX_ITERS iterations are complete no     *)
(* further request can be posted.                                          *)

TerminationBound ==
    /\ Len(requests) <= valves.MAX_ITERS
    /\ step <= valves.MAX_ITERS
    /\ (pc = "loop" /\ step >= valves.MAX_ITERS) => ~ENABLED Request

\* A model that set the heartbeat on every reply was stopped after MAX_ITERS rounds.
TerminationBoundWitness ==
    /\ pc = "done"
    /\ valves.MAX_ITERS >= 2
    /\ Len(requests) = valves.MAX_ITERS
    /\ RepliesOf(convo) = valves.MAX_ITERS
    /\ \A i \in 1..Len(convo) :
          (i > Len(messages) /\ convo[i].role = "assistant") => SignalsContinue(convo[i])

----------------------------------------------------------------------------
(* C2. Ceiling behaviour, as claimed: when the loop ends because MAX_ITERS *)
(* iterations are complete, exactly MAX_ITERS requests were posted and     *)
(* pipe returns the content of the last assistant reply (as it is or       *)
(* trimmed), not an error.  The code returns the content of the            *)
(* continuation turn appended after that reply.                            *)

CeilingReturnsLastReply ==
    exit = "exhausted" =>
        /\ pc = "done"
        /\ Len(requests) = valves.MAX_ITERS
        /\ result.returned
        /\ LET last == convo[Len(convo) - 1] IN
              /\ last.role = "assistant"
              /\ result.text \in {TextOf(last), Strip(TextOf(last))}

----------------------------------------------------------------------------
(* C3. Continue decision: a step that appends an assistant reply whose     *)
(* content is a JSON object with a truthy heartbeat field appends exactly  *)
(* one more message after it, {role: user, content: ""}, adds one to the   *)
(* iteration count and leaves pipe in its loop.                            *)

ContinueDecision ==
    [][ (ReplyArrives /\ SignalsContinue(NewReply)) =>
            /\ convo' = convo \o <<NewReply, Msg("user", Str(<<>>), <<>>)>>
            /\ step' = step + 1
            /\ pc' = "loop"
            /\ ~result'.returned
      ]_vars

\* The loop is running after a continue decision, with rounds left.
ContinueDecisionWitness ==
    /\ pc = "loop"
    /\ step >= 1
    /\ step < valves.MAX_ITERS
    /\ SignalsContinue(convo[Len(convo) - 1])
    /\ convo[Len(convo)] = Msg("user", Str(<<>>), <<>>)

----------------------------------------------------------------------------
(* C4. Stop-clean decision, as claimed: a step that appends a reply whose  *)
(* content is a JSON object with the heartbeat field missing or falsy      *)
(* appends nothing else, posts no further request and returns that         *)
(* reply's content.                                                        *)

StopCleanReturnsContent ==
    [][ /\ (ReplyArrives /\ SignalsStopClean(NewReply)) =>
            /\ convo' = Append(convo, NewReply)
            /\ requests' = requests
            /\ Returns(TextOf(NewReply))
        /\ EndedIsQuiet
      ]_vars

(* C4, amended: ... and returns that reply's content with its surrounding  *)
(* whitespace removed.                                                     *)

StopCleanReturnsTrimmed ==
    [][ /\ (ReplyArrives /\ SignalsStopClean(NewReply)) =>
            /\ convo' = Append(convo, NewReply)
            /\ requests' = requests
            /\ pc' = "done"
            /\ result'.returned
            /\ IsTrimOf(result'.text, TextOf(NewReply))
        /\ EndedIsQuiet
      ]_vars

\* pipe returned after a stop-clean reply whose content had blanks around it.
StopCleanWitness ==
    /\ pc = "done"
    /\ step >= 1
    /\ SignalsStopClean(convo[Len(convo)])
    /\ RepliesOf(convo) = step + 1
    /\ result.text # TextOf(convo[Len(convo)])

----------------------------------------------------------------------------
(* C5. Non-JSON is final, as claimed: a step that appends a reply whose    *)
(* content (the empty text when the reply carries none) is no JSON object  *)
(* ends the invocation without raising, appends nothing else, posts no     *)
(* further request and returns that content trimmed.                       *)

NonJsonIsFinal ==
    [][ /\ (ReplyArrives /\ IsNonJson(NewReply)) =>
            /\ convo' = Append(convo, NewReply)
            /\ requests' = requests
            /\ pc' = "done"
            /\ result'.returned
            /\ IsTrimOf(result'.text, TextOf(NewReply))
        /\ EndedIsQuiet
      ]_vars

----------------------------------------------------------------------------
(* C6. Round count, as claimed: when the reply that arrives is the first   *)
(* stop reply (no JSON object, or an object with the heartbeat missing or  *)
(* falsy), the number of requests posted equals the number of replies      *)
(* received, and pipe returns the content of that reply (as it is or       *)
(* trimmed).                                                               *)

RoundsFollowFirstStop ==
    [][ (ReplyArrives /\ ~SignalsContinue(NewReply)) =>
            /\ Len(requests') = RepliesOf(convo')
            /\ RepliesOf(convo') = step + 1
            /\ pc' = "done"
            /\ result'.returned
            /\ result'.text \in {TextOf(NewReply), Strip(TextOf(NewReply))}
      ]_vars

----------------------------------------------------------------------------
(* C7. Output contract, as claimed: every invocation that ends without a   *)
(* completion failure returns a value, and that value is the content of    *)
(* the last message of the conversation, trimmed.                          *)

OutputContract ==
    (pc \in {"done", "raised"} /\ error.at # "completion") =>
        /\ result.returned
        /\ convo # <<>>
        /\ IsTrimOf(result.text, TextOf(convo[Len(convo)]))

----------------------------------------------------------------------------
(* C8. Completion failure aborts: a step in which the round-trip ends      *)
(* without an assistant message leaves pipe with that exception; nothing   *)
(* is appended, no request is posted by that step or after it, and no      *)
(* answer is returned.                                                     *)

FailureAborts ==
    /\ [](pc = "raised" => ~result.returned)
    /\ [][ /\ (pc = "waiting" /\ convo' = convo) =>
                /\ pc' = "raised"
                /\ error'.exc \in Failures
                /\ error'.at = "completion"
                /\ requests' = requests
                /\ ~result'.returned
           /\ EndedIsQuiet
         ]_vars

\* A later round-trip failed: the replies received so far are not returned.
FailureAbortsWitness ==
    /\ pc = "raised"
    /\ error.at = "completion"
    /\ step >= 1
    /\ Len(requests) = step + 1
    /\ ~result.returned

----------------------------------------------------------------------------
(* C9. Tool-call dispatch, as claimed: in every request posted, each       *)
(* assistant turn of this invocation that requests a tool is directly      *)
(* followed by a message carrying the tool's result.                       *)

ToolResultPrecedesRequest ==
    \A r \in 1..Len(requests) :
        LET ms == requests[r].messages IN
        \A i \in (Len(messages) + 1)..Len(ms) :
            (ms[i].role = "assistant" /\ ms[i].tool_calls # <<>>) =>
                (i < Len(ms) /\ ms[i + 1].role = "tool")

----------------------------------------------------------------------------
(* C10. Conversation seeding, as claimed: the first request of an          *)
(* invocation carries the caller's messages followed by a user turn whose  *)
(* content is the user_message argument.                                   *)

SeededWithUserTurn ==
    requests # <<>> =>
        requests[1].messages = Append(messages, Msg("user", Str(user_message), <<>>))

(* C10, amended: the first request of an invocation carries the caller's   *)
(* messages, in order, and nothing else: no turn is added for the          *)
(* user_message argument.                                                  *)

SeededFromMessagesOnly ==
    requests # <<>> => requests[1].messages = messages

\* A request was posted for a call with an empty history and a user message.
SeededWitness ==
    /\ requests # <<>>
    /\ messages = <<>>
    /\ user_message # <<>>
    /\ requests[1].messages = <<>>

----------------------------------------------------------------------------
(* C11. Tool spec omission: every request of an invocation has no "tools"  *)
(* key when the registry yields no specs, carries the registry's specs     *)
(* when it yields at least one, and all requests of the invocation agree.  *)

ToolSpecOmission ==
    \A k \in 1..Len(requests) :
        /\ tools = <<>> => ~requests[k].has_tools
        /\ tools # <<>> => (requests[k].has_tools /\ requests[k].tools = tools)
        /\ requests[k].has_tools = requests[1].has_tools
        /\ requests[k].tools = requests[1].tools

\* A second request was posted by a pipeline whose registry is empty.
ToolSpecOmissionWitness ==
    /\ tools = <<>>
    /\ Len(requests) >= 2
    /\ ~requests[2].has_tools

----------------------------------------------------------------------------
(* C14. Conversation non-emptiness, as claimed: from the call of pipe on,  *)
(* the conversation holds at least one message, and so does the            *)
(* conversation sent in every request.                                     *)

ConversationNonEmpty ==
    pc # "idle" =>
        /\ convo # <<>>
        /\ \A k \in 1..Len(requests) : requests[k].messages # <<>>

(* C14, amended: the conversation is non-empty from the first assistant    *)
(* reply on, that is in every request after the first and at the final     *)
(* read of the last message (which never fails on an empty list); in the   *)
(* first request it is empty exactly when the caller's messages are.       *)

NonEmptyAfterFirstReply ==
    /\ \A k \in 1..Len(requests) :
          /\ k >= 2 => requests[k].messages # <<>>
          /\ k = 1 => (requests[k].messages = <<>> <=> messages = <<>>)
    /\ (pc \in {"done", "raised"} /\ error.at # "completion") => convo # <<>>
    /\ step >= 1 => convo # <<>>
    /\ error.exc # "IndexError"

\* pipe returned for messages = []: its first request was empty, the final read was not.
NonEmptyWitness ==
    /\ pc = "done"
    /\ messages = <<>>
    /\ requests[1].messages = <<>>
    /\ convo # <<>>

----------------------------------------------------------------------------
(* C15. Model selection, as claimed: every request names the model_id      *)
(* argument when it is not empty and the configured model otherwise.       *)

ModelFollowsArgument ==
    \A k \in 1..Len(requests) :
        requests[k].model = (IF model_id # "" THEN model_id ELSE valves.TASK_MODEL)

(* C15, amended: every request of the heartbeat pipeline names the         *)
(* configured task model, whatever the model_id argument is.               *)

ModelIsTaskModel ==
    \A k \in 1..Len(requests) : requests[k].model = valves.TASK_MODEL

\* A request was posted for a call that named another model.
ModelIsTaskModelWitness ==
    /\ requests # <<>>
    /\ model_id # ""
    /\ model_id # valves.TASK_MODEL
    /\ requests[1].model = valves.TASK_MODEL

----------------------------------------------------------------------------
(* C16. Absent content, as claimed: a step that appends a reply carrying   *)
(* no content (no key, or null) stops the invocation and returns the       *)
(* empty text without raising.                                             *)

AbsentContentIsEmptyText ==
    [][ (ReplyArrives /\ NewReply.content.kind # "str") =>
            /\ convo' = Append(convo, NewReply)
            /\ pc' = "done"
            /\ result' = [returned |-> TRUE, text |-> <<>>]
      ]_vars

----------------------------------------------------------------------------
(* C17. Append-only transcript: within an invocation the conversation      *)
(* only grows at its end; the k-th request carries the caller's messages   *)
(* followed by k-1 pairs of an assistant reply and an empty user turn, so  *)
(* its length is the initial length plus 2(k-1), it extends the request    *)
(* before it, and after the first request it ends with an empty user turn. *)

\* A step of a running invocation keeps every message and adds only at the end.
GrowsAtEnd ==
    pc \in {"loop", "waiting"} =>
        /\ Len(convo') >= Len(convo)
        /\ SubSeq(convo', 1, Len(convo)) = convo

AppendOnlyTranscript ==
    /\ [](\A k \in 1..Len(requests) :
            LET ms == requests[k].messages
                n  == Len(messages)
            IN
            /\ Len(ms) = n + 2 * (k - 1)
            /\ SubSeq(ms, 1, n) = messages
            /\ \A j \in 1..(k - 1) :
                  /\ ms[n + 2 * j - 1].role = "assistant"
                  /\ ms[n + 2 * j] = Msg("user", Str(<<>>), <<>>)
            /\ k > 1 => SubSeq(ms, 1, Len(ms) - 2) = requests[k - 1].messages
            /\ k > 1 => ms[Len(ms)] = Msg("user", Str(<<>>), <<>>))
    /\ [][GrowsAtEnd]_vars

\* A third request was posted for a call with a history.
AppendOnlyWitness ==
    /\ Len(requests) >= 3
    /\ messages # <<>>
    /\ Len(requests[3].messages) = Len(messages) + 4

----------------------------------------------------------------------------
(* The single-round pipelines: llm.py and function.py *)

\* Valves.MODEL_ID of a single-round pipeline.
MODEL_ID == "gpt-4.1-nano"

\* self.tool_specs of function.py: the names of the functions offered.
FunctionSpecs == <<"add">>

\* Attributes of the Tools object of function.py: its one tool, and what else
\* hasattr finds on it.
ToolMethods == {"add"}
OtherAttributes == {"pipeline"}

\* hasattr(self.tools, func_name)
HasAttr(name) == name \in ToolMethods \cup OtherAttributes

\* f"{n}" for the numbers the model adds.
Decimal(n) ==
    CASE n = 0 -> "0" [] n = 1 -> "1" [] n = 2 -> "2" [] n = 4 -> "4"
      [] n = 5 -> "5" [] OTHER -> "8"

\* The keys of a decoded object.
KeysOf(data) == {data.items[i][1] : i \in 1..Len(data.items)}

\* What a call leaves behind: a returned value or a raised exception.
Returned(text) == [raised |-> FALSE, exc |-> "none", value |-> Str(text)]
Raised(exc)    == [raised |-> TRUE, exc |-> exc, value |-> None]

\* Tools.add(**params): the keywords must be exactly a and b; the sum is
\* defined for two numbers (the arguments of the model are numbers or null).
ToolAdd(params) ==
    IF KeysOf(params) # {"a", "b"} THEN Raised("TypeError")
    ELSE LET a == DictGet(params, "a")
             b == DictGet(params, "b")
         IN
         IF a.t = "num" /\ b.t = "num"
         THEN Returned(<<"The sum of ", Decimal(a.n), " and ", Decimal(b.n), " is ",
                         Decimal(a.n + b.n)>>)
         ELSE Raised("TypeError")

\* getattr(self.tools, func_name)(**params)
Invoke(name, params) ==
    IF ~IsDict(params) THEN Raised("TypeError")
    ELSE IF name \notin ToolMethods THEN Raised("TypeError")
    ELSE ToolAdd(params)

\* f"Error: {e}"; the exception's name stands for its message.
ErrorText(exc) == <<"Error: ", exc>>

\* f"Unknown function: {func_name}"
UnknownText(name) == <<"Unknown function: ", name>>

\* A function call of an assistant message; name "" when there is none.
NoCall == [name |-> "", arguments |-> None]
FunctionCall(name, arguments) == [name |-> name, arguments |-> Str(arguments)]

\* Outcomes of client.chat.completions.create: an exception, or a message.
Completed(content, call) == [exc |-> "none", content |-> content, function_call |-> call]
Failed(exc) == [exc |-> exc, content |-> None, function_call |-> NoCall]

ArgumentTexts ==
    { <<"{", "\"a\"", ":", "1", ",", " ", "\"b\"", ":", "4", "}">>,
      <<"{", "\"a\"", ":", "4", ",", "\"b\"", ":", "null", "}">>,
      <<"{", "\"a\"", ":", "1", "}">>,
      <<"{", "\"a\"", ":", "1", ",", "\"b\"", ":", "4", ",", "\"thought\"", ":", "0", "}">>,
      <<"{", "\"a\"", ":", "1">>,
      <<"[", "1", ",", "4", "]">>,
      <<>> }

FunctionNames == {"add", "subtract", "pipeline"}

Outcomes ==
    { Failed(e) : e \in {"APIConnectionError", "AuthenticationError", "IndexError"} }
    \cup { Completed(Str(c), NoCall) : c \in {<<"4">>, <<" ", "4", "\n">>, <<>>} }
    \cup { Completed(None, FunctionCall(n, a)) : n \in FunctionNames, a \in ArgumentTexts }
    \cup { Completed(None, [name |-> "add", arguments |-> None]) }

\* model=model_id or self.valves.MODEL_ID
SingleModel(mid) == IF mid # "" THEN mid ELSE MODEL_ID

\* conversation = messages + [{"role": "user", "content": user_message}]
SingleConversation(msgs, um) == Append(msgs, UserTurn(um))

\* The body of the try block of function.py's pipe for one outcome of the
\* completion call: what it returns or raises, and the attributes it called.
FunctionBody(out) ==
    IF out.exc # "none" THEN [res |-> Raised(out.exc), invoked |-> <<>>]
    ELSE IF out.function_call.name = ""
    THEN [res |-> [raised |-> FALSE, exc |-> "none", value |-> out.content],
          invoked |-> <<>>]
    ELSE LET d == json_loads(out.function_call.arguments) IN
         IF d.exc # "none" THEN [res |-> Raised(d.exc), invoked |-> <<>>]
         ELSE IF ~HasAttr(out.function_call.name)
         THEN [res |-> Returned(UnknownText(out.function_call.name)), invoked |-> <<>>]
         ELSE [res |-> Invoke(out.function_call.name, d.val),
               invoked |-> <<out.function_call.name>>]

\* A mutant of FunctionTry: the exception is not caught.
FunctionTryUncaught(out) == FunctionBody(out).res

\* try: ... except Exception as e: return f"Error: {e}"
FunctionTry(out) ==
    LET r == FunctionBody(out).res IN
    IF r.raised THEN Returned(ErrorText(r.exc)) ELSE r

\* function.py: pipe(user_message, model_id, messages, body), one call.
FunctionPipe(um, mid, msgs, out) ==
    /\ single' =
          [pipeline |-> "function",
           args     |-> [user_message |-> um, model_id |-> mid, messages |-> msgs],
           requests |-> <<[model |-> SingleModel(mid),
                           messages |-> SingleConversation(msgs, um),
                           functions |-> FunctionSpecs]>>,
           outcome  |-> out,
           invoked  |-> FunctionBody(out).invoked,
           returned |-> ~FunctionTry(out).raised,
           value    |-> FunctionTry(out).value,
           raised   |-> FunctionTry(out).raised]
    /\ UNCHANGED <<valves, tools, pc, messages, user_message, model_id, convo, step,
                   exit, requests, result, error, other>>

\* try: ... return message.content  except Exception as e: return f"Error: {e}"
LlmTry(out) ==
    IF out.exc # "none" THEN Returned(ErrorText(out.exc))
    ELSE [raised |-> FALSE, exc |-> "none", value |-> out.content]

\* llm.py: pipe(user_message, model_id, messages, body), one call.
LlmPipe(um, mid, msgs, out) ==
    /\ out.function_call = NoCall
    /\ single' =
          [pipeline |-> "llm",
           args     |-> [user_message |-> um, model_id |-> mid, messages |-> msgs],
           requests |-> <<[model |-> SingleModel(mid),
                           messages |-> SingleConversation(msgs, um),
                           functions |-> <<>>]>>,
           outcome  |-> out,
           invoked  |-> <<>>,
           returned |-> ~LlmTry(out).raised,
           value    |-> LlmTry(out).value,
           raised   |-> LlmTry(out).raised]
    /\ UNCHANGED <<valves, tools, pc, messages, user_message, model_id, convo, step,
                   exit, requests, result, error, other>>

NextSingle ==
    \/ \E um \in UserMessages, mid \in ModelIds, msgs \in Histories, out \in Outcomes :
          FunctionPipe(um, mid, msgs, out)
    \/ \E um \in UserMessages, mid \in ModelIds, msgs \in Histories, out \in Outcomes :
          LlmPipe(um, mid, msgs, out)

\* The single-round pipelines after construction: nothing of the heartbeat
\* pipeline is in use.
InitSingle ==
    /\ valves = [MAX_ITERS |-> 1, HEARTBEAT_FIELD |-> "heartbeat", TASK_MODEL |-> "task-model"]
    /\ tools = <<>>
    /\ pc = "idle"
    /\ messages = <<>>
    /\ user_message = <<>>
    /\ model_id = ""
    /\ convo = <<>>
    /\ step = 0
    /\ exit = "none"
    /\ requests = <<>>
    /\ result = NoResult
    /\ error = NoError
    /\ other = IdleLocal
    /\ single = NoSingle

\* The single-round pipelines alone, called any number of times.
SpecSingle == InitSingle /\ [][NextSingle]_vars

----------------------------------------------------------------------------
(* The single-round pipelines name the model_id argument when it is not    *)
(* empty and Valves.MODEL_ID otherwise, and send the caller's messages     *)
(* followed by a user turn with the user_message argument.                 *)

SingleModelFollowsArgument ==
    single.pipeline # "none" =>
        /\ single.requests[1].model =
              (IF single.args.model_id # "" THEN single.args.model_id ELSE MODEL_ID)
        /\ single.requests[1].messages =
              Append(single.args.messages,
                     Msg("user", Str(single.args.user_message), <<>>))

----------------------------------------------------------------------------
(* C18. function.py's pipe never raises and makes one completion call and  *)
(* at most one invocation.  A failed completion, arguments that do not     *)
(* decode, or an invocation that raises yield "Error: <message>"; a call   *)
(* whose arguments decode and whose name the Tools object does not have    *)
(* yields "Unknown function: <name>" and invokes nothing; a call naming    *)
(* the tool with arguments it accepts yields the tool's result; a reply    *)
(* without a function call yields the reply's content.                     *)

----------------------------------------------------------------------------
(* Vocabulary for two invocations *)

\* The locals of the first invocation, as a record like other.
First ==
    [pc |-> pc, user_message |-> user_message, model_id |-> model_id,
     messages |-> messages, convo |-> convo, step |-> step, exit |-> exit,
     requests |-> requests, result |-> result, error |-> error]

\* The assistant replies an invocation has recorded after its history: every
\* second message from the first one past the history.
RepliesSeq(loc) ==
    [j \in 1..((Len(loc.convo) - Len(loc.messages) + 1) \div 2) |->
        loc.convo[Len(loc.messages) + 2 * j - 1]]

Ended(loc) == loc.pc \in {"done", "raised"}

\* A step that is no new call of pipe leaves the caller's list alone.
KeepsCallerList(before, after) ==
    (before.pc \in {"idle", "done", "raised"} /\ after.pc = "loop")
    \/ after.messages = before.messages

\* A new call of pipe starts from the caller's list and from nothing else.
StartsFromCallerList(before, after) ==
    (before.pc \in {"idle", "done", "raised"} /\ after.pc = "loop") =>
        /\ after.convo = after.messages
        /\ after.requests = <<>>
        /\ after.step = 0
        /\ ~after.result.returned

\* The messages of list ms are the history of loc followed by replies from
\* own and synthetic empty user turns.
OnlyOwn(ms, loc, own) ==
    /\ Len(ms) >= Len(loc.messages)
    /\ SubSeq(ms, 1, Len(loc.messages)) = loc.messages
    /\ \A i \in (Len(loc.messages) + 1)..Len(ms) :
          ms[i] \in own \/ ms[i] = Msg("user", Str(<<>>), <<>>)

\* loc has posted the requests, and ended the way, of pipe run alone with the
\* arguments and the replies of loc.
AsAlone(loc) ==
    loc.pc \in {"waiting", "done", "raised"} =>
        LET a == Alone(loc.user_message, loc.model_id, loc.messages, RepliesSeq(loc)) IN
        /\ loc.requests = a.requests
        /\ loc.error.at # "completion" =>
              /\ loc.pc = a.end.pc
              /\ loc.result = a.end.result
              /\ loc.error = a.end.error

----------------------------------------------------------------------------
(* C12. Stateless reconstruction: no step of pipe changes the valves or    *)
(* the tools of the pipeline, and none but a new call changes the caller's *)
(* messages; a new call starts from the caller's messages alone; and two   *)
(* ended invocations that were given the same messages and got the same    *)
(* replies have posted the same requests and ended with the same result.   *)

StatelessFrame ==
    /\ valves' = valves
    /\ tools' = tools
    /\ KeepsCallerList(First, First')
    /\ KeepsCallerList(other, other')
    /\ StartsFromCallerList(First, First')
    /\ StartsFromCallerList(other, other')

StatelessReconstruction ==
    /\ [][StatelessFrame]_vars
    /\ []((/\ Ended(First)
           /\ Ended(other)
           /\ messages = other.messages
           /\ RepliesSeq(First) = RepliesSeq(other))
          => /\ requests = other.requests
             /\ result = other.result
             /\ pc = other.pc)

\* Two invocations with the same history and different other arguments got
\* the same two replies and returned the same text.
StatelessWitness ==
    /\ pc = "done"
    /\ other.pc = "done"
    /\ messages = other.messages
    /\ messages # <<>>
    /\ user_message # other.user_message
    /\ model_id # other.model_id
    /\ Len(RepliesSeq(First)) = 2
    /\ RepliesSeq(First) = RepliesSeq(other)
    /\ Len(requests) = 2
    /\ result.returned
    /\ result.text # <<>>
    /\ result = other.result

----------------------------------------------------------------------------
(* C13. Isolation of concurrent invocations: with the steps of two         *)
(* invocations on one Pipeline object interleaved round-trip by            *)
(* round-trip, the conversation and every request of each holds its own    *)
(* caller's history followed only by replies the endpoint gave to it and   *)
(* synthetic turns, and each posts the requests and returns the result of  *)
(* pipe run alone with its arguments and its replies.                      *)

Isolation ==
    /\ OnlyOwn(convo, First, FirstReplies)
    /\ OnlyOwn(other.convo, other, OtherReplies)
    /\ \A k \in 1..Len(requests) : OnlyOwn(requests[k].messages, First, FirstReplies)
    /\ \A k \in 1..Len(other.requests) :
          OnlyOwn(other.requests[k].messages, other, OtherReplies)
    /\ AsAlone(First)
    /\ AsAlone(other)

\* Both invocations are waiting for their second round-trip, each with its
\* own history.
IsolationWitness ==
    /\ pc = "waiting"
    /\ other.pc = "waiting"
    /\ Len(requests) = 2
    /\ Len(other.requests) = 2
    /\ Len(messages) = 2
    /\ Len(other.messages) = 3
    /\ Len(requests[2].messages) = 4
    /\ Len(other.requests[2].messages) = 5

====
